---------------------------- MODULE Spec2Model ----------------------------
(***************************************************************************)
(* A model of the LINE meal-logging webhook (line-kcal-bot).               *)
(*                                                                         *)
(* Strings the code inspects character by character (dish names, table    *)
(* keys) are sequences of one-character strings.  Text returned by the    *)
(* generative model is a sequence of lexical tokens (braces, brackets,    *)
(* prose words, object fields, bare values); the regular expressions and  *)
(* JSON.parse of the code work on that sequence.  JavaScript numbers are  *)
(* records [nan, n] so that NaN is a value of its own.                    *)
(***************************************************************************)
EXTENDS Integers, Sequences, FiniteSets, TLC

(***************************************************************************)
(* Character strings                                                       *)
(***************************************************************************)
S_unknown == <<"u","n","k","n","o","w","n">>
S_Unknown == <<"U","n","k","n","o","w","n">>
S_PadThai == <<"P","a","d"," ","T","h","a","i">>
S_PADTHAI == <<" ","P","A","D"," ","T","H","A","I"," ">>
S_tomyum == <<"t","o","m"," ","y","u","m">>
S_chickenrice == <<"c","h","i","c","k","e","n"," ","r","i","c","e">>
S_gibberish == <<"x","y","z">>
S_bowl == <<"1"," ","b","o","w","l">>
S_object == <<"[","o","b","j","e","c","t"," ","O","b","j","e","c","t","]">>
S_true == <<"t","r","u","e">>
S_false == <<"f","a","l","s","e">>
S_null == <<"n","u","l","l">>
S_NaN == <<"N","a","N">>
S_abc == <<"a","b","c">>
S_12 == <<"1","2">>

UpperToLower ==
  "A" :> "a" @@ "B" :> "b" @@ "C" :> "c" @@ "D" :> "d" @@ "E" :> "e" @@
  "F" :> "f" @@ "G" :> "g" @@ "H" :> "h" @@ "I" :> "i" @@ "J" :> "j" @@
  "K" :> "k" @@ "L" :> "l" @@ "M" :> "m" @@ "N" :> "n" @@ "O" :> "o" @@
  "P" :> "p" @@ "Q" :> "q" @@ "R" :> "r" @@ "S" :> "s" @@ "T" :> "t" @@
  "U" :> "u" @@ "V" :> "v" @@ "W" :> "w" @@ "X" :> "x" @@ "Y" :> "y" @@
  "Z" :> "z"

\* String.prototype.toLowerCase
toLowerCase(s) ==
  [i \in 1..Len(s) |-> IF s[i] \in DOMAIN UpperToLower THEN UpperToLower[s[i]] ELSE s[i]]

IsSpace(c) == c \in {" ", "\t", "\n"}

\* String.prototype.trim
trim(s) ==
  LET idx == {i \in 1..Len(s) : ~IsSpace(s[i])}
      lo == CHOOSE i \in idx : \A j \in idx : i <= j
      hi == CHOOSE i \in idx : \A j \in idx : i >= j
  IN  IF idx = {} THEN <<>> ELSE SubSeq(s, lo, hi)

\* String.prototype.includes
includes(s, k) ==
  \E i \in 0..(Len(s) - Len(k)) : SubSeq(s, i + 1, i + Len(k)) = k

\* the separators of the regular expression /\s|,|-/
IsSep(c) == IsSpace(c) \/ c = "," \/ c = "-"

\* new Set(s.split(/\s|,|-/).filter(Boolean)): the maximal separator-free runs
tokenSet(s) ==
  LET starts == {i \in 1..Len(s) : ~IsSep(s[i]) /\ (i = 1 \/ IsSep(s[i - 1]))}
      endOf(i) == CHOOSE j \in i..Len(s) :
                    /\ \A x \in i..j : ~IsSep(s[x])
                    /\ (j = Len(s) \/ IsSep(s[j + 1]))
  IN  { SubSeq(s, i, endOf(i)) : i \in starts }

(***************************************************************************)
(* JavaScript numbers: [nan, n], n counting halves, so that a number with  *)
(* a fractional part exists and Math.round is not the identity             *)
(***************************************************************************)
Den == 2
Frac(h) == [nan |-> FALSE, n |-> h]
Num(i) == Frac(i * Den)
NaN == [nan |-> TRUE, n |-> 0]
NumAdd(a, b) == IF a.nan \/ b.nan THEN NaN ELSE Frac(a.n + b.n)

\* Math.round: to the nearest integer, a half towards +Infinity
MathRound(x) == IF x.nan THEN NaN ELSE Num((2 * x.n + Den) \div (2 * Den))

(***************************************************************************)
(* The curated table (lib/nutrition.ts)                                    *)
(***************************************************************************)
Nutri(k, p, c, f) == [kcal |-> Num(k), protein_g |-> Num(p), carbs_g |-> Num(c), fat_g |-> Num(f)]

\* Object.keys(NUTRITION_MAP), in insertion order
MapKeys == <<
  <<"k","h","a","o"," ","m","a","n"," ","g","a","i">>,
  <<"k","h","a","o"," ","m","o","o"," ","d","a","e","n","g">>,
  <<"p","a","d"," ","k","r","a"," ","p","a","o"," ","m","o","o"," ","k","a","i"," ","d","a","o">>,
  <<"p","a","d"," ","t","h","a","i">>,
  <<"s","o","m"," ","t","u","m">>,
  <<"m","o","o"," ","p","i","n","g"," ","(","2"," ","s","t","i","c","k","s",")">>,
  <<"o","m","e","l","e","t"," ","r","i","c","e">>,
  <<"g","r","i","l","l","e","d"," ","c","h","i","c","k","e","n"," ","(","q","u","a","r","t","e","r",")">>,
  <<"f","r","i","e","d"," ","r","i","c","e">> >>

MapValues == <<
  Nutri(680, 35, 85, 20),
  Nutri(650, 28, 90, 18),
  Nutri(720, 35, 75, 28),
  Nutri(600, 24, 85, 18),
  Nutri(120, 3, 20, 2),
  Nutri(260, 18, 8, 16),
  Nutri(550, 20, 75, 18),
  Nutri(300, 40, 0, 14),
  Nutri(630, 20, 90, 20) >>

NUTRITION_MAP(key) ==
  MapValues[CHOOSE i \in 1..Len(MapKeys) : MapKeys[i] = key]

\* null, as returned by matchDish (no table key is the empty string)
NoKey == <<>>

\* new Set(k.split(/\s|,|-/).filter(Boolean)) of every key
MapKeyTokens == [i \in 1..Len(MapKeys) |-> tokenSet(MapKeys[i])]

\* (mutant) a key that scores as much as the best so far replaces it
RECURSIVE ScoreLoopLastWins(_, _, _, _)
ScoreLoopLastWins(i, tokens, bestKey, bestScore) ==
  IF i > Len(MapKeys) THEN (IF bestScore >= 1 THEN bestKey ELSE NoKey)
  ELSE LET score == Cardinality(MapKeyTokens[i] \cap tokens)
       IN  IF score >= bestScore
           THEN ScoreLoopLastWins(i + 1, tokens, MapKeys[i], score)
           ELSE ScoreLoopLastWins(i + 1, tokens, bestKey, bestScore)

\* the scoring loop of matchDish: keys i..Len(MapKeys) still to visit
RECURSIVE ScoreLoop(_, _, _, _)
ScoreLoop(i, tokens, bestKey, bestScore) ==
  IF i > Len(MapKeys) THEN (IF bestScore >= 1 THEN bestKey ELSE NoKey)
  ELSE LET score == Cardinality(MapKeyTokens[i] \cap tokens)
       IN  IF score > bestScore
           THEN ScoreLoop(i + 1, tokens, MapKeys[i], score)
           ELSE ScoreLoop(i + 1, tokens, bestKey, bestScore)

\* (mutant) the name is compared as it was given
matchDishNoNorm(name) ==
  LET hits == {i \in 1..Len(MapKeys) : name = MapKeys[i] \/ includes(name, MapKeys[i])}
  IN  IF hits # {}
      THEN MapKeys[CHOOSE i \in hits : \A j \in hits : i <= j]
      ELSE ScoreLoop(1, tokenSet(name), NoKey, 0)

matchDish(name) ==
  LET norm == trim(toLowerCase(name))
      hits == {i \in 1..Len(MapKeys) : norm = MapKeys[i] \/ includes(norm, MapKeys[i])}
  IN  IF hits # {}
      THEN MapKeys[CHOOSE i \in hits : \A j \in hits : i <= j]
      ELSE ScoreLoop(1, tokenSet(norm), NoKey, 0)


(***************************************************************************)
(* JavaScript values: [t, n, s, kids]                                      *)
(*   t: "num" "str" "bool" "null" "undef" "obj" "arr"                      *)
(*   n: the number (num) or 0/1 (bool); s: the characters (str);           *)
(*   kids: the fields [key, val] of an object, the elements of an array    *)
(***************************************************************************)
JNum(i) == [t |-> "num", n |-> i, s |-> <<>>, kids |-> <<>>]
JStr(cs) == [t |-> "str", n |-> 0, s |-> cs, kids |-> <<>>]
JBool(b) == [t |-> "bool", n |-> IF b THEN 1 ELSE 0, s |-> <<>>, kids |-> <<>>]
JNull == [t |-> "null", n |-> 0, s |-> <<>>, kids |-> <<>>]
JUndefined == [t |-> "undef", n |-> 0, s |-> <<>>, kids |-> <<>>]
JObj(fs) == [t |-> "obj", n |-> 0, s |-> <<>>, kids |-> fs]
JArr(vs) == [t |-> "arr", n |-> 0, s |-> <<>>, kids |-> vs]

DigitVal ==
  "0" :> 0 @@ "1" :> 1 @@ "2" :> 2 @@ "3" :> 3 @@ "4" :> 4 @@
  "5" :> 5 @@ "6" :> 6 @@ "7" :> 7 @@ "8" :> 8 @@ "9" :> 9

DigitChar == <<"0","1","2","3","4","5","6","7","8","9">>

RECURSIVE DigitsToInt(_)
DigitsToInt(cs) ==
  IF cs = <<>> THEN 0
  ELSE 10 * DigitsToInt(SubSeq(cs, 1, Len(cs) - 1)) + DigitVal[cs[Len(cs)]]

AllDigits(cs) == cs # <<>> /\ \A i \in 1..Len(cs) : cs[i] \in DOMAIN DigitVal

\* Number(<string>): the empty string is 0, a decimal integer its value, else NaN
StrToNum(cs) ==
  LET u == trim(cs)
  IN  IF u = <<>> THEN Num(0)
      ELSE IF AllDigits(u) THEN Num(DigitsToInt(u))
      ELSE IF u[1] = "-" /\ AllDigits(Tail(u)) THEN Num(0 - DigitsToInt(Tail(u)))
      ELSE NaN

RECURSIVE NatToStr(_)
NatToStr(i) ==
  IF i < 10 THEN <<DigitChar[i + 1]>>
  ELSE NatToStr(i \div 10) \o <<DigitChar[(i % 10) + 1]>>

\* String(v)
RECURSIVE ToStr(_)
ToStr(v) ==
  CASE v.t = "str" -> v.s
    [] v.t = "num" -> IF v.n < 0 THEN <<"-">> \o NatToStr(0 - v.n) ELSE NatToStr(v.n)
    [] v.t = "bool" -> IF v.n = 1 THEN S_true ELSE S_false
    [] v.t = "null" -> S_null
    [] v.t = "undef" -> <<"u","n","d","e","f","i","n","e","d">>
    [] v.t = "obj" -> S_object
    [] v.t = "arr" -> IF v.kids = <<>> THEN <<>>
                      ELSE IF Len(v.kids) = 1
                      THEN (IF v.kids[1].t \in {"null", "undef"} THEN <<>> ELSE ToStr(v.kids[1]))
                      ELSE ToStr(JArr(SubSeq(v.kids, 1, Len(v.kids) - 1))) \o <<",">>
                           \o (IF v.kids[Len(v.kids)].t \in {"null", "undef"} THEN <<>>
                               ELSE ToStr(v.kids[Len(v.kids)]))

\* Number(v)
ToNumber(v) ==
  CASE v.t = "num" -> Num(v.n)
    [] v.t = "str" -> StrToNum(v.s)
    [] v.t = "bool" -> Num(v.n)
    [] v.t = "null" -> Num(0)
    [] v.t = "undef" -> NaN
    [] v.t = "obj" -> NaN
    [] v.t = "arr" -> StrToNum(ToStr(v))

\* a ?? b
Nullish(v) == v.t \in {"null", "undef"}
Coalesce(v, d) == IF Nullish(v) THEN d ELSE v

\* a || b
Falsy(v) ==
  \/ v.t \in {"null", "undef"}
  \/ v.t = "bool" /\ v.n = 0
  \/ v.t = "num" /\ v.n = 0
  \/ v.t = "str" /\ v.s = <<>>
OrElse(v, d) == IF Falsy(v) THEN d ELSE v

\* o.key: the last field of that name of an object, undefined otherwise
GetProp(o, key) ==
  LET idx == IF o.t = "obj" THEN {i \in 1..Len(o.kids) : o.kids[i].key = key} ELSE {}
  IN  IF idx = {} THEN JUndefined
      ELSE o.kids[CHOOSE i \in idx : \A j \in idx : i >= j].val

(***************************************************************************)
(* Model text: a sequence of tokens [c, key, val]                          *)
(*   c: "{" "}" "[" "]"  punctuation                                       *)
(*      "w"  a word of commentary                                          *)
(*      "f"  an object field  "key": val                                   *)
(*      "a"  a bare JSON value val                                         *)
(* Commas and colons are part of the tokens next to them.                  *)
(***************************************************************************)
Tk(c) == [c |-> c, key |-> "", val |-> JNull]
TkW == Tk("w")
TkF(k, v) == [c |-> "f", key |-> k, val |-> v]
TkA(v) == [c |-> "a", key |-> "", val |-> v]

ParseFail == [ok |-> FALSE, v |-> JUndefined, next |-> 0]

\* the fields of an object from position i up to its closing brace
RECURSIVE ParseFields(_, _, _)
ParseFields(toks, i, acc) ==
  IF i > Len(toks) THEN ParseFail
  ELSE IF toks[i].c = "}" THEN [ok |-> TRUE, v |-> JObj(acc), next |-> i + 1]
  ELSE IF toks[i].c = "f"
       THEN ParseFields(toks, i + 1, Append(acc, [key |-> toks[i].key, val |-> toks[i].val]))
  ELSE ParseFail

\* one JSON value starting at position i; the elements of an array up to its
\* closing bracket
RECURSIVE ParseValue(_, _), ParseElems(_, _, _)
ParseValue(toks, i) ==
  IF i > Len(toks) THEN ParseFail
  ELSE CASE toks[i].c = "a" -> [ok |-> TRUE, v |-> toks[i].val, next |-> i + 1]
         [] toks[i].c = "{" -> ParseFields(toks, i + 1, <<>>)
         [] toks[i].c = "[" -> ParseElems(toks, i + 1, <<>>)
         [] OTHER -> ParseFail

ParseElems(toks, i, acc) ==
  IF i > Len(toks) THEN ParseFail
  ELSE IF toks[i].c = "]" THEN [ok |-> TRUE, v |-> JArr(acc), next |-> i + 1]
  ELSE LET r == ParseValue(toks, i)
       IN  IF r.ok THEN ParseElems(toks, r.next, Append(acc, r.v)) ELSE ParseFail

\* JSON.parse: ok = FALSE when it throws
JSONparse(toks) ==
  LET r == ParseValue(toks, 1)
  IN  IF r.ok /\ r.next = Len(toks) + 1
      THEN [ok |-> TRUE, v |-> r.v]
      ELSE [ok |-> FALSE, v |-> JUndefined]

\* out.match(/<open>[\s\S]*<close>/): greedy, from the first opening token to
\* the last closing token after it; <<>> when there is no match
RegexSpan(out, open, close) ==
  LET os == {i \in 1..Len(out) : out[i].c = open}
      lo == CHOOSE i \in os : \A j \in os : i <= j
      cs == {i \in 1..Len(out) : out[i].c = close /\ i > lo}
      hi == CHOOSE i \in cs : \A j \in cs : i >= j
  IN  IF os = {} THEN <<>>
      ELSE IF cs = {} THEN <<>>
      ELSE SubSeq(out, lo, hi)

(***************************************************************************)
(* The generative model's behaviour for one call: it raises, or returns    *)
(* text.                                                                   *)
(***************************************************************************)
Raises == [raises |-> TRUE, text |-> <<>>]
Says(toks) == [raises |-> FALSE, text |-> toks]

(***************************************************************************)
(* estimateNutrition (lib/gemini.ts, api/line-webhook.ts)                  *)
(***************************************************************************)
SrcMap(key) == [tag |-> "map", key |-> key]
SrcGemini == [tag |-> "gemini", key |-> <<>>]
SrcDefault == [tag |-> "default", key |-> <<>>]

DefaultFacts ==
  [kcal |-> Num(500), protein_g |-> Num(20), carbs_g |-> Num(60), fat_g |-> Num(18),
   source |-> SrcDefault]

Returned(v) == [raised |-> FALSE, val |-> v]
Thrown == [raised |-> TRUE, val |-> DefaultFacts]

\* the part of estimateNutrition after the model's text has arrived
parseNutrition(out) ==
  LET jsonText == RegexSpan(out, "{", "}")
      p == JSONparse(jsonText)
      j == p.v
  IN  IF p.ok
      THEN [kcal |-> ToNumber(Coalesce(GetProp(j, "kcal"), JNum(500))),
            protein_g |-> ToNumber(Coalesce(GetProp(j, "protein_g"), JNum(20))),
            carbs_g |-> ToNumber(Coalesce(GetProp(j, "carbs_g"), JNum(60))),
            fat_g |-> ToNumber(Coalesce(GetProp(j, "fat_g"), JNum(18))),
            source |-> SrcGemini]
      ELSE DefaultFacts

\* (mutant) a text that does not parse is thrown on
estimateNutritionParseThrows(dishName, portion, reply) ==
  LET key == matchDish(dishName)
  IN  IF key # NoKey
      THEN Returned(NUTRITION_MAP(key) @@ [source |-> SrcMap(key)])
      ELSE IF reply.raises THEN Thrown
      ELSE IF ~JSONparse(RegexSpan(reply.text, "{", "}")).ok THEN Thrown
      ELSE Returned(parseNutrition(reply.text))

\* estimateNutrition(dishName, portion) with the model behaving as `reply`:
\* [raised, val].  The portion is only quoted in the prompt.
estimateNutrition(dishName, portion, reply) ==
  LET key == matchDish(dishName)
  IN  IF key # NoKey
      THEN Returned(NUTRITION_MAP(key) @@ [source |-> SrcMap(key)])
      ELSE IF reply.raises THEN Thrown
      ELSE Returned(parseNutrition(reply.text))


(***************************************************************************)
(* analyzeImage (lib/gemini.ts, api/line-webhook.ts)                       *)
(***************************************************************************)
UnknownCandidate == [dish_name |-> S_unknown, portion |-> <<>>, confidence |-> Num(0)]

\* item.dish_name on null or undefined is a TypeError
ItemThrows(item) == Nullish(item)

\* the callback of j.map
toCandidate(item) ==
  [dish_name |-> trim(ToStr(OrElse(GetProp(item, "dish_name"), JStr(S_unknown)))),
   portion |-> trim(ToStr(OrElse(GetProp(item, "portion"), JStr(<<>>)))),
   confidence |-> ToNumber(OrElse(GetProp(item, "confidence"), JNum(0)))]

\* (mutant) an empty array is mapped like any other array
parseCandidatesNoSentinel(out) ==
  LET m == RegexSpan(out, "[", "]")
      jsonText == IF m = <<>> THEN <<Tk("["), Tk("]")>> ELSE m
      p == JSONparse(jsonText)
      j == p.v
  IN  IF ~p.ok THEN <<UnknownCandidate>>
      ELSE IF j.t = "arr"
      THEN IF \E i \in 1..Len(j.kids) : ItemThrows(j.kids[i])
           THEN <<UnknownCandidate>>
           ELSE [i \in 1..Len(j.kids) |-> toCandidate(j.kids[i])]
      ELSE <<UnknownCandidate>>

\* the part of analyzeImage after the model's text has arrived
parseCandidates(out) ==
  LET m == RegexSpan(out, "[", "]")
      jsonText == IF m = <<>> THEN <<Tk("["), Tk("]")>> ELSE m
      p == JSONparse(jsonText)
      j == p.v
  IN  IF ~p.ok THEN <<UnknownCandidate>>
      ELSE IF j.t = "arr" /\ Len(j.kids) > 0
      THEN IF \E i \in 1..Len(j.kids) : ItemThrows(j.kids[i])
           THEN <<UnknownCandidate>>
           ELSE [i \in 1..Len(j.kids) |-> toCandidate(j.kids[i])]
      ELSE <<UnknownCandidate>>

\* analyzeImage(imageUrl) when the image fetch answers fetchOk and the model
\* behaves as `reply`: [raised, val]
analyzeImage(fetchOk, reply) ==
  IF ~fetchOk THEN [raised |-> TRUE, val |-> <<>>]
  ELSE IF reply.raises THEN [raised |-> TRUE, val |-> <<>>]
  ELSE [raised |-> FALSE, val |-> parseCandidates(reply.text)]


(***************************************************************************)
(* Messages.  A text is modelled by what it says: its kind and the values  *)
(* formatted into it.                                                      *)
(***************************************************************************)
Msg(kind, span, n, total, items) ==
  [kind |-> kind, span |-> span, n |-> n, total |-> total, items |-> items]

MsgAck == Msg("ack", "", 0, <<>>, <<>>)
MsgHelp == Msg("help", "", 0, <<>>, <<>>)
MsgUnidentified == Msg("unidentified", "", 0, <<>>, <<>>)
MsgOops == Msg("oops", "", 0, <<>>, <<>>)
MsgNoMealsYet == Msg("nomealsyet", "", 0, <<>>, <<>>)
MsgNoMealsIn(span) == Msg("nomealsin", span, 0, <<>>, <<>>)

\* x && ..., for a number: false for 0 and NaN (and for a stored null)
Truthy(x) == ~x.nan /\ x.n # 0

\* fmtMealLine: the name, the rounded kcal, and one macro line per truthy value
fmtMealLine(name, kcal, p, c, f) ==
  [name |-> name,
   kcal |-> MathRound(kcal),
   macros |-> (IF Truthy(p) THEN <<[label |-> "Protein", g |-> MathRound(p)]>> ELSE <<>>)
              \o (IF Truthy(c) THEN <<[label |-> "Carbs", g |-> MathRound(c)]>> ELSE <<>>)
              \o (IF Truthy(f) THEN <<[label |-> "Fat", g |-> MathRound(f)]>> ELSE <<>>)]

(***************************************************************************)
(* The inbound delivery                                                    *)
(***************************************************************************)
\* a delivery of two events: the positions in body.events
Events == {1, 2}
ExternalIds == {"U1", "U2"}

S_SummaryDay == <<"S","u","m","m","a","r","y"," ","D","a","y"," ">>
S_summaryweek == <<"s","u","m","m","a","r","y"," ","w","e","e","k">>
S_summary_day == <<"s","u","m","m","a","r","y"," ","d","a","y">>
S_day == <<"d","a","y">>
S_hi == <<"h","i">>

Event(type, mtype, text, user) ==
  [type |-> type, mtype |-> mtype, text |-> text, user |-> user]

EventShapes ==
  { Event("follow", "", <<>>, u) : u \in ExternalIds }
  \cup { Event("message", "sticker", <<>>, u) : u \in ExternalIds }
  \cup { Event("message", "image", <<>>, u) : u \in ExternalIds }
  \cup { Event("message", "text", t, u) :
           t \in {S_SummaryDay, S_summaryweek, S_hi}, u \in ExternalIds }

\* req.method: a delivery is a POST, the channel's verification a GET
Methods == {"POST", "GET"}

\* the deliveries considered: the first event is from U1
Batches == { b \in [Events -> EventShapes] : b[1].user = "U1" }

\* getProfile: the profile service knows U1 and answers an error for U2
DisplayName(ext) == IF ext = "U1" THEN "Ann" ELSE "null"

(***************************************************************************)
(* What the generative model may answer in a pipeline run                  *)
(***************************************************************************)
Item(name, portion, conf) ==
  <<Tk("{"), TkF("dish_name", JStr(name)), TkF("portion", JStr(portion)),
    TkF("confidence", JNum(conf)), Tk("}")>>

AnalyzerReplies == <<
  Raises,
  Says(<<TkW>>),
  Says(<<TkW, Tk("[")>> \o Item(S_tomyum, S_bowl, 1) \o Item(S_tomyum, <<>>, 0)
       \o <<Tk("]"), TkW>>),
  Says(<<Tk("[")>> \o Item(S_PadThai, S_bowl, 1) \o Item(S_Unknown, <<>>, 0) \o <<Tk("]")>>) >>

EstimatorReplies == <<
  Raises,
  Says(<<TkW, Tk("{"), TkF("kcal", JNum(222)), TkF("protein_g", JNum(5)),
         TkF("fat_g", JNum(0)), Tk("}"), TkW>>),
  Says(<<TkW, Tk("{"), TkW>>) >>

(***************************************************************************)
(* State                                                                   *)
(***************************************************************************)
VARIABLES
  hpc,          \* the handler: "verify", then "dispatched"
  method,       \* req.method
  sigOk,        \* whether the delivery's signature verifies
  response,     \* the status sent to the channel, 0 while none is sent
  events,       \* body.events
  users,        \* table users: rows [id, line_user_id, display_name]
  meals,        \* table meals: rows in insertion order
  pc,           \* per event: where its callback stands
  uid,          \* per event: userDbId
  su,           \* per event: u.id inside summarize
  out,          \* per event: the text summarize returned
  cands,        \* per event: parsedItems
  est,          \* per event: the estimateNutrition call of each candidate
  settled,      \* per event: the candidates in the order their calls settled
  replies,      \* per event: messages delivered with its reply token
  pushes,       \* per event: linePush calls made for it, [msg, delivered]
  fail,         \* per event: the step that threw first, "" if none
  fin,          \* function harness: the input
  fout          \* function harness: the result

dbvars == <<users, meals>>
evvars == <<pc, uid, su, out, cands, est, settled, replies, pushes, fail>>
hvars == <<hpc, method, sigOk, response, events>>
fvars == <<fin, fout>>
vars == <<hvars, dbvars, evvars, fvars>>

NoInput == [dish |-> <<>>, portion |-> <<>>, reply |-> Raises]
NoOutput == [called |-> FALSE, res |-> Thrown]

IdleWith(b, m, sig) ==
  /\ hpc = "verify"
  /\ method = m
  /\ sigOk = sig
  /\ response = 0
  /\ events = b
  /\ users = <<>>
  /\ meals = <<>>
  /\ pc = [e \in Events |-> "idle"]
  /\ uid = [e \in Events |-> 0]
  /\ su = [e \in Events |-> 0]
  /\ out = [e \in Events |-> MsgNoMealsYet]
  /\ cands = [e \in Events |-> <<>>]
  /\ est = [e \in Events |-> <<>>]
  /\ settled = [e \in Events |-> <<>>]
  /\ replies = [e \in Events |-> <<>>]
  /\ pushes = [e \in Events |-> <<>>]
  /\ fail = [e \in Events |-> ""]

Init ==
  /\ \E b \in Batches, m \in Methods, sig \in BOOLEAN : IdleWith(b, m, sig)
  /\ fin = NoInput
  /\ fout = NoOutput

(***************************************************************************)
(* handler: await Promise.all(events.map(...)) and the response            *)
(***************************************************************************)
\* (mutant) the response does not wait for a pipeline that has been acknowledged
SettleDetached(pcn) ==
  IF response # 0 THEN response
  ELSE IF \E e \in Events : pcn[e] = "raised" THEN 500
  ELSE IF \A e \in Events : pcn[e] \in {"done", "fetch", "upload", "analyze_fetch",
                                        "analyze_model", "estimating", "persist",
                                        "push_result", "catch"} THEN 200
  ELSE 0

\* The response once the callbacks stand as pcn: Promise.all rejects with the
\* first callback that throws (500) and resolves when all have returned (200).
Settle(pcn) ==
  IF response # 0 THEN response
  ELSE IF \E e \in Events : pcn[e] = "raised" THEN 500
  ELSE IF \A e \in Events : pcn[e] = "done" THEN 200
  ELSE 0

\* (mutant) a throwing callback cancels the callbacks still running
ThrowCancelsOthers(e) ==
  [f \in Events |-> IF f = e THEN "raised"
                    ELSE IF pc[f] \in {"done", "raised", "idle"} THEN pc[f]
                    ELSE "cancelled"]

\* a callback throws: its promise rejects, the other callbacks go on
Throw(e) == [pc EXCEPT ![e] = "raised"]

Raise(e, why) ==
  /\ pc' = Throw(e)
  /\ fail' = [fail EXCEPT ![e] = IF fail[e] = "" THEN why ELSE fail[e]]
  /\ response' = Settle(pc')

Goto(e, l) ==
  /\ pc' = [pc EXCEPT ![e] = l]
  /\ response' = Settle(pc')

\* the text command of a text event
Command(e) == trim(toLowerCase(events[e].text))

endsWith(s, suffix) ==
  Len(s) >= Len(suffix) /\ SubSeq(s, Len(s) - Len(suffix) + 1, Len(s)) = suffix

Span(e) == IF endsWith(Command(e), S_day) THEN "day" ELSE "week"

\* where a callback continues once upsertUser has returned
Route(e) ==
  IF events[e].mtype = "text"
  THEN IF Command(e) = S_summary_day \/ Command(e) = S_summaryweek
       THEN "summ_user" ELSE "reply_help"
  ELSE IF events[e].mtype = "image" THEN "ack"
  ELSE "done"

\* a request that is not a POST is answered 200 at once; otherwise
\* verifySignature, then every callback runs up to its first await
VerifySignature ==
  /\ hpc = "verify"
  /\ hpc' = "dispatched"
  /\ IF method # "POST"
     THEN /\ response' = 200
          /\ pc' = pc
     ELSE IF sigOk
     THEN /\ pc' = [e \in Events |-> IF events[e].type # "message" THEN "done"
                                     ELSE "upsert_select"]
          /\ response' = Settle(pc')
     ELSE /\ response' = 401
          /\ pc' = pc
  /\ UNCHANGED <<method, sigOk, events, dbvars, uid, su, out, cands, est,
                 settled, replies, pushes, fail, fvars>>

(***************************************************************************)
(* upsertUser                                                              *)
(***************************************************************************)
RowsOf(ext) == {i \in 1..Len(users) : users[i].line_user_id = ext}

\* .select('id').eq('line_user_id', ext).maybeSingle(): the row's id when the
\* query succeeds and finds exactly one row, 0 (no data) otherwise
SelectUser(ext, ok) ==
  IF ok /\ Cardinality(RowsOf(ext)) = 1 THEN CHOOSE i \in RowsOf(ext) : TRUE ELSE 0

UpsertSelect(e) ==
  /\ pc[e] = "upsert_select"
  /\ \E ok \in BOOLEAN :
       LET existing == SelectUser(events[e].user, ok)
       IN  IF existing # 0
           THEN /\ uid' = [uid EXCEPT ![e] = existing]
                /\ Goto(e, Route(e))
           ELSE /\ uid' = uid
                /\ Goto(e, "upsert_insert")
  /\ UNCHANGED <<hpc, method, sigOk, events, dbvars, su, out, cands, est,
                 settled, replies, pushes, fail, fvars>>

\* getProfile, then .insert({line_user_id, display_name}).select('id').single().
\* The table's schema is not part of the sources: where a row of the same
\* line_user_id exists, the insert is either refused (a unique constraint) or
\* adds a second row.
UpsertInsert(e) ==
  /\ pc[e] = "upsert_insert"
  /\ \E ok \in BOOLEAN, unique \in BOOLEAN :
       LET ext == events[e].user
           conflict == unique /\ RowsOf(ext) # {}
       IN  IF conflict \/ ~ok
           THEN /\ Raise(e, IF conflict THEN "upsert_conflict" ELSE "upsert_insert")
                /\ UNCHANGED <<users, uid>>
           ELSE /\ users' = Append(users, [id |-> Len(users) + 1, line_user_id |-> ext,
                                           display_name |-> DisplayName(ext)])
                /\ uid' = [uid EXCEPT ![e] = Len(users) + 1]
                /\ Goto(e, Route(e))
                /\ fail' = fail
  /\ UNCHANGED <<hpc, method, sigOk, events, meals, su, out, cands, est,
                 settled, replies, pushes, fvars>>


(***************************************************************************)
(* summarize and the text commands                                         *)
(*                                                                         *)
(* A record's taken_at is modelled by its age: 0 today, 1 earlier this     *)
(* week, 2 before that.  The table holds its rows oldest first.            *)
(***************************************************************************)
\* .gte('taken_at', start).lte('taken_at', now), start the start of the day or week
InWindow(m, span) == m.taken_at = 0 \/ (span = "week" /\ m.taken_at = 1)

\* Number(x || 0) of a stored value: a stored null counts 0
StoredOrZero(x) == IF x.nan THEN Num(0) ELSE x

\* (mutant) each record is rounded before it is added
RECURSIVE SumStoredRounded(_, _)
SumStoredRounded(rows, field) ==
  IF rows = <<>> THEN Num(0)
  ELSE NumAdd(SumStoredRounded(SubSeq(rows, 1, Len(rows) - 1), field),
              MathRound(StoredOrZero(rows[Len(rows)][field])))

RECURSIVE SumStored(_, _)
SumStored(rows, field) ==
  IF rows = <<>> THEN Num(0)
  ELSE NumAdd(SumStored(SubSeq(rows, 1, Len(rows) - 1), field),
              StoredOrZero(rows[Len(rows)][field]))

summaryMessage(rows, span) ==
  IF rows = <<>> THEN MsgNoMealsIn(span)
  ELSE Msg("summary", span, Len(rows),
           <<MathRound(SumStored(rows, "calories_kcal")), MathRound(SumStored(rows, "protein_g")),
             MathRound(SumStored(rows, "carbs_g")), MathRound(SumStored(rows, "fat_g"))>>,
           [i \in 1..Len(rows) |->
              fmtMealLine(rows[i].dish_name, StoredOrZero(rows[i].calories_kcal),
                          rows[i].protein_g, rows[i].carbs_g, rows[i].fat_g)])

\* the range query of summarize for user id u
MealsInWindow(u, span) ==
  SelectSeq(meals, LAMBDA m : m.user_id = u /\ InWindow(m, span))

\* summarize(lineUserId, span) as one call: selOk and qryOk tell whether the two
\* queries succeed; [raised, val]
summarize(ext, span, selOk, qryOk) ==
  LET u == SelectUser(ext, selOk)
  IN  IF u = 0 THEN [raised |-> FALSE, val |-> MsgNoMealsYet]
      ELSE IF ~qryOk THEN [raised |-> TRUE, val |-> MsgNoMealsYet]
      ELSE [raised |-> FALSE, val |-> summaryMessage(MealsInWindow(u, span), span)]

\* summarize: the user lookup
SummUser(e) ==
  /\ pc[e] = "summ_user"
  /\ \E ok \in BOOLEAN :
       LET u == SelectUser(events[e].user, ok)
       IN  IF u = 0
           THEN /\ out' = [out EXCEPT ![e] = MsgNoMealsYet]
                /\ su' = su
                /\ Goto(e, "reply_summary")
           ELSE /\ su' = [su EXCEPT ![e] = u]
                /\ out' = out
                /\ Goto(e, "summ_query")
  /\ UNCHANGED <<hpc, method, sigOk, events, dbvars, uid, cands, est,
                 settled, replies, pushes, fail, fvars>>

\* summarize: the range query and the formatting
SummQuery(e) ==
  /\ pc[e] = "summ_query"
  /\ \E ok \in BOOLEAN :
       IF ok
       THEN /\ out' = [out EXCEPT ![e] =
                         summaryMessage(MealsInWindow(su[e], Span(e)), Span(e))]
            /\ Goto(e, "reply_summary")
            /\ fail' = fail
       ELSE /\ Raise(e, "summ_query")
            /\ out' = out
  /\ UNCHANGED <<hpc, method, sigOk, events, dbvars, uid, su, cands, est,
                 settled, replies, pushes, fvars>>

\* lineReply(replyToken, [msg]): delivered, or it throws
LineReply(e, msg, next, why) ==
  \E ok \in BOOLEAN :
    IF ok
    THEN /\ replies' = [replies EXCEPT ![e] = Append(replies[e], msg)]
         /\ Goto(e, next)
         /\ fail' = fail
    ELSE /\ Raise(e, why)
         /\ replies' = replies

ReplySummary(e) ==
  /\ pc[e] = "reply_summary"
  /\ LineReply(e, out[e], "done", "reply")
  /\ UNCHANGED <<hpc, method, sigOk, events, dbvars, uid, su, out, cands, est,
                 settled, pushes, fvars>>

ReplyHelp(e) ==
  /\ pc[e] = "reply_help"
  /\ LineReply(e, MsgHelp, "done", "reply")
  /\ UNCHANGED <<hpc, method, sigOk, events, dbvars, uid, su, out, cands, est,
                 settled, pushes, fvars>>

(***************************************************************************)
(* The image pipeline (handleImageMessage)                                 *)
(***************************************************************************)
\* (mutant) the pipeline starts without the acknowledgment
AckSkipped(e) ==
  /\ pc[e] = "ack"
  /\ Goto(e, "fetch")
  /\ UNCHANGED <<hpc, method, sigOk, events, dbvars, uid, su, out, cands, est,
                 settled, replies, pushes, fail, fvars>>

\* lineReply 'Analyzing your meal'
Ack(e) ==
  /\ pc[e] = "ack"
  /\ LineReply(e, MsgAck, "fetch", "ack")
  /\ UNCHANGED <<hpc, method, sigOk, events, dbvars, uid, su, out, cands, est,
                 settled, pushes, fvars>>

\* a step inside the try block that either goes on or lands in the catch
TryStep(e, ok, next, why) ==
  /\ IF ok THEN Goto(e, next) ELSE Goto(e, "catch")
  /\ fail' = [fail EXCEPT ![e] = IF ok \/ fail[e] # "" THEN fail[e] ELSE why]

GetLineImageBuffer(e) ==
  /\ pc[e] = "fetch"
  /\ \E ok \in BOOLEAN : TryStep(e, ok, "upload", "fetch")
  /\ UNCHANGED <<hpc, method, sigOk, events, dbvars, uid, su, out, cands, est,
                 settled, replies, pushes, fvars>>

UploadToSupabase(e) ==
  /\ pc[e] = "upload"
  /\ \E ok \in BOOLEAN : TryStep(e, ok, "analyze_fetch", "upload")
  /\ UNCHANGED <<hpc, method, sigOk, events, dbvars, uid, su, out, cands, est,
                 settled, replies, pushes, fvars>>

\* analyzeImage: fetch(imageUrl)
AnalyzeFetch(e) ==
  /\ pc[e] = "analyze_fetch"
  /\ \E ok \in BOOLEAN :
       TryStep(e, ~analyzeImage(ok, Says(<<>>)).raised, "analyze_model", "analyze_fetch")
  /\ UNCHANGED <<hpc, method, sigOk, events, dbvars, uid, su, out, cands, est,
                 settled, replies, pushes, fvars>>

\* one estimateNutrition call: "called" while the model's answer is awaited,
\* rid the answer it got (0: none, the table matched)
EstCall(st, rid, val) == [st |-> st, rid |-> rid, val |-> val]

\* (mutant) a name estimated earlier in the run is served from a cache
startEstimatesCached(cs) ==
  [i \in 1..Len(cs) |->
     IF matchDish(cs[i].dish_name) # NoKey
     THEN EstCall("done", 0, estimateNutrition(cs[i].dish_name, cs[i].portion, Raises).val)
     ELSE IF \E j \in 1..(i - 1) : cs[j].dish_name = cs[i].dish_name
          THEN EstCall("done", 0, DefaultFacts)
          ELSE EstCall("called", 0, DefaultFacts)]

\* parsedItems.map(item => estimateNutrition(...)): each call runs up to its
\* await; a table match returns at once, without a model call
startEstimates(cs) ==
  [i \in 1..Len(cs) |->
     IF matchDish(cs[i].dish_name) # NoKey
     THEN EstCall("done", 0, estimateNutrition(cs[i].dish_name, cs[i].portion, Raises).val)
     ELSE EstCall("called", 0, DefaultFacts)]

AllDone(es) == \A i \in 1..Len(es) : es[i].st = "done"

\* analyzeImage: the model call and the parse; then the fan-out
AnalyzeModel(e) ==
  /\ pc[e] = "analyze_model"
  /\ \E r \in 1..Len(AnalyzerReplies) :
       LET a == analyzeImage(TRUE, AnalyzerReplies[r])
           es == startEstimates(a.val)
       IN  IF a.raised
           THEN /\ TryStep(e, FALSE, "", IF AnalyzerReplies[r].raises
                                          THEN "analyze_model" ELSE "analyze_parse")
                /\ UNCHANGED <<cands, est, settled>>
           ELSE /\ cands' = [cands EXCEPT ![e] = a.val]
                /\ est' = [est EXCEPT ![e] = es]
                /\ settled' = [settled EXCEPT ![e] =
                                 SelectSeq([i \in 1..Len(es) |-> i],
                                           LAMBDA i : es[i].st = "done")]
                /\ TryStep(e, TRUE, IF AllDone(es) THEN "persist" ELSE "estimating", "")
  /\ UNCHANGED <<hpc, method, sigOk, events, dbvars, uid, su, out, replies,
                 pushes, fvars>>

\* (mutant) a call that throws is passed over: the run goes on with the
\* defaults for that candidate once every call has returned
EstimateReturnFailureTolerated(e, i) ==
  /\ pc[e] = "estimating"
  /\ i \in 1..Len(est[e])
  /\ est[e][i].st = "called"
  /\ \E r \in 1..Len(EstimatorReplies) :
       LET res == estimateNutrition(cands[e][i].dish_name, cands[e][i].portion,
                                    EstimatorReplies[r])
           es == [est[e] EXCEPT ![i] =
                    EstCall(IF res.raised THEN "failed" ELSE "done", r, res.val)]
       IN  /\ est' = [est EXCEPT ![e] = es]
           /\ settled' = [settled EXCEPT ![e] = Append(settled[e], i)]
           /\ TryStep(e, TRUE, IF \A k \in 1..Len(es) : es[k].st # "called"
                                THEN "persist" ELSE "estimating", "")
  /\ UNCHANGED <<hpc, method, sigOk, events, dbvars, uid, su, out, cands,
                 replies, pushes, fvars>>

\* the model answers the estimateNutrition call of candidate i; Promise.all
\* rejects with the first call that throws and resolves when all have returned.
\* An answer that arrives after Promise.all has rejected is read by nothing
\* and is left out.
EstimateReturn(e, i) ==
  /\ pc[e] = "estimating"
  /\ i \in 1..Len(est[e])
  /\ est[e][i].st = "called"
  /\ \E r \in 1..Len(EstimatorReplies) :
       LET res == estimateNutrition(cands[e][i].dish_name, cands[e][i].portion,
                                    EstimatorReplies[r])
           es == [est[e] EXCEPT ![i] =
                    EstCall(IF res.raised THEN "failed" ELSE "done", r, res.val)]
       IN  /\ est' = [est EXCEPT ![e] = es]
           /\ settled' = [settled EXCEPT ![e] = Append(settled[e], i)]
           /\ IF res.raised
              THEN TryStep(e, FALSE, "", IF EstimatorReplies[r].raises
                                         THEN "estimate" ELSE "estimate_parse")
              ELSE TryStep(e, TRUE, IF AllDone(es) THEN "persist" ELSE "estimating", "")
  /\ UNCHANGED <<hpc, method, sigOk, events, dbvars, uid, su, out, cands,
                 replies, pushes, fvars>>

\* (mutant) the results in the order the calls settled
nutritionResultsAsSettled(e) == [i \in 1..Len(est[e]) |-> est[e][settled[e][i]].val]

\* await Promise.all(nutritionPromises): the results in the candidates' order
nutritionResults(e) == [i \in 1..Len(est[e]) |-> est[e][i].val]

\* item.dish_name || 'unknown'
NameOrUnknown(name) == IF name = <<>> THEN S_unknown ELSE name

\* the rows built from parsedItems and nutritionResults; ev names the event
\* they were built for
mealRows(e) ==
  [i \in 1..Len(cands[e]) |->
     LET item == cands[e][i]
         nutrition == nutritionResults(e)[i]
     IN  [ev |-> e,
          user_id |-> uid[e],
          taken_at |-> 0,
          image_url |-> e,
          dish_name |-> NameOrUnknown(item.dish_name),
          portion |-> IF item.portion = <<>> THEN JNull ELSE JStr(item.portion),
          confidence |-> item.confidence,
          calories_kcal |-> nutrition.kcal,
          protein_g |-> nutrition.protein_g,
          carbs_g |-> nutrition.carbs_g,
          fat_g |-> nutrition.fat_g,
          raw_ai |-> [parsed |-> item, nutrition |-> nutrition]]]

\* (mutant) one insert per row: the rows before the refused one stay
insertMealsOneByOne(rows, ok) ==
  IF ok THEN meals \o rows ELSE meals \o SubSeq(rows, 1, Len(rows) - 1)

\* (mutant) the insert replaces what the table held
insertMealsOverwrite(rows, ok) == IF ok THEN rows ELSE meals

\* (mutant) a row whose user and dish are already in the table is left out
insertMealsDeduplicated(rows, ok) ==
  IF ok
  THEN meals \o SelectSeq(rows, LAMBDA r :
                   ~\E k \in 1..Len(meals) : /\ meals[k].user_id = r.user_id
                                             /\ meals[k].dish_name = r.dish_name)
  ELSE meals

\* supabase.from('meals').insert(mealRows): one statement for all the rows
insertMeals(rows, ok) == IF ok THEN meals \o rows ELSE meals

\* (mutant) the insert's error is not looked at
SaveMealsErrorIgnored(e) ==
  /\ pc[e] = "persist"
  /\ \E ok \in BOOLEAN :
       /\ meals' = insertMeals(mealRows(e), ok)
       /\ Goto(e, "push_result")
       /\ fail' = [fail EXCEPT ![e] = IF ok \/ fail[e] # "" THEN fail[e] ELSE "persist"]
  /\ UNCHANGED <<hpc, method, sigOk, events, users, uid, su, out, cands, est,
                 settled, replies, pushes, fvars>>

SaveMeals(e) ==
  /\ pc[e] = "persist"
  /\ \E ok \in BOOLEAN :
       /\ meals' = insertMeals(mealRows(e), ok)
       /\ TryStep(e, ok, "push_result", "persist")
  /\ UNCHANGED <<hpc, method, sigOk, events, users, uid, su, out, cands, est,
                 settled, replies, pushes, fvars>>

RECURSIVE SumKcal(_)
SumKcal(rows) ==
  IF rows = <<>> THEN Num(0)
  ELSE NumAdd(SumKcal(SubSeq(rows, 1, Len(rows) - 1)), rows[Len(rows)].calories_kcal)

\* the rows listed in the reply
Listed(rows) == SelectSeq(rows, LAMBDA r : toLowerCase(r.dish_name) # S_unknown)

\* (mutant) no fallback when nothing is listed
resultMessageNoFallback(rows) ==
  Msg("logged", "", Len(Listed(rows)), <<MathRound(SumKcal(Listed(rows)))>>,
      [i \in 1..Len(Listed(rows)) |->
         fmtMealLine(Listed(rows)[i].dish_name, Listed(rows)[i].calories_kcal,
                     Listed(rows)[i].protein_g, Listed(rows)[i].carbs_g,
                     Listed(rows)[i].fat_g)])

\* (mutant) the total runs over every row, listed or not
resultMessageTotalOfAll(rows) ==
  LET shown == Listed(rows)
  IN  IF Len(shown) = 0 THEN MsgUnidentified
      ELSE Msg("logged", "", Len(shown), <<MathRound(SumKcal(rows))>>,
               [i \in 1..Len(shown) |->
                  fmtMealLine(shown[i].dish_name, shown[i].calories_kcal,
                              shown[i].protein_g, shown[i].carbs_g, shown[i].fat_g)])

\* step 5: the reply text
resultMessage(rows) ==
  LET shown == Listed(rows)
  IN  IF Len(shown) = 0 THEN MsgUnidentified
      ELSE Msg("logged", "", Len(shown), <<MathRound(SumKcal(shown))>>,
               [i \in 1..Len(shown) |->
                  fmtMealLine(shown[i].dish_name, shown[i].calories_kcal,
                              shown[i].protein_g, shown[i].carbs_g, shown[i].fat_g)])

\* linePush(lineUserId, [msg])
LinePush(e, msg, ok) ==
  pushes' = [pushes EXCEPT ![e] = Append(pushes[e], [msg |-> msg, delivered |-> ok])]

\* (mutant) a failed outcome push is swallowed
PushResultSwallowed(e) ==
  /\ pc[e] = "push_result"
  /\ \E ok \in BOOLEAN :
       /\ LinePush(e, resultMessage(mealRows(e)), ok)
       /\ TryStep(e, TRUE, "done", "")
  /\ UNCHANGED <<hpc, method, sigOk, events, dbvars, uid, su, out, cands, est,
                 settled, replies, fvars>>

PushResult(e) ==
  /\ pc[e] = "push_result"
  /\ \E ok \in BOOLEAN :
       /\ LinePush(e, resultMessage(mealRows(e)), ok)
       /\ TryStep(e, ok, "done", "push_result")
  /\ UNCHANGED <<hpc, method, sigOk, events, dbvars, uid, su, out, cands, est,
                 settled, replies, fvars>>

\* the catch block: push the apology; a failure of this push leaves the callback
CatchPush(e) ==
  /\ pc[e] = "catch"
  /\ \E ok \in BOOLEAN :
       /\ LinePush(e, MsgOops, ok)
       /\ IF ok THEN Goto(e, "done") /\ fail' = fail
          ELSE Raise(e, "catch_push")
  /\ UNCHANGED <<hpc, method, sigOk, events, dbvars, uid, su, out, cands, est,
                 settled, replies, fvars>>

EventStep(e) ==
  \/ UpsertSelect(e)
  \/ UpsertInsert(e)
  \/ SummUser(e)
  \/ SummQuery(e)
  \/ ReplySummary(e)
  \/ ReplyHelp(e)
  \/ Ack(e)
  \/ GetLineImageBuffer(e)
  \/ UploadToSupabase(e)
  \/ AnalyzeFetch(e)
  \/ AnalyzeModel(e)
  \/ \E i \in 1..Len(est[e]) : EstimateReturn(e, i)
  \/ SaveMeals(e)
  \/ PushResult(e)
  \/ CatchPush(e)

Next ==
  \/ VerifySignature
  \/ \E e \in Events : EventStep(e)

Spec == Init /\ [][Next]_vars


(***************************************************************************)
(* estimateNutrition on its own: every dish name and portion below, with   *)
(* the model raising or answering any text of at most MaxTextLen tokens    *)
(***************************************************************************)
MaxTextLen == 4

EstTokens ==
  {TkW, Tk("{"), Tk("}"),
   TkF("kcal", JNum(250)), TkF("kcal", JNum(-5)), TkF("kcal", JStr(S_abc)),
   TkF("fat_g", JNull)}

RECURSIVE TextsOfLen(_, _)
TextsOfLen(alphabet, n) ==
  IF n = 0 THEN {<<>>}
  ELSE {Append(t, a) : t \in TextsOfLen(alphabet, n - 1), a \in alphabet}

TextsUpTo(alphabet, n) == UNION {TextsOfLen(alphabet, k) : k \in 0..n}

EstDishes == {S_PADTHAI, S_chickenrice, S_tomyum}
EstPortions == {<<>>, S_bowl}
EstReplies(n) == {Raises} \cup {Says(t) : t \in TextsUpTo(EstTokens, n)}

InitEst ==
  /\ IdleWith(CHOOSE b \in Batches : TRUE, "POST", TRUE)
  /\ fin \in [dish : EstDishes, portion : EstPortions, reply : EstReplies(MaxTextLen)]
  /\ fout = NoOutput

CallEstimate ==
  /\ ~fout.called
  /\ fout' = [called |-> TRUE,
              res |-> estimateNutrition(fin.dish, fin.portion, fin.reply)]
  /\ UNCHANGED <<hvars, dbvars, evvars, fin>>

NextEst == CallEstimate

SpecEst == InitEst /\ [][NextEst]_vars

(***************************************************************************)
(* analyzeImage on its own: the image fetch answering or failing, the      *)
(* model raising or answering any text of at most MaxTextLen tokens        *)
(***************************************************************************)
Field(k, v) == [key |-> k, val |-> v]

AnTokens ==
  {TkW, Tk("["), Tk("]"),
   TkA(JNull),
   TkA(JNum(12)),
   TkA(JObj(<<Field("dish_name", JStr(S_tomyum)), Field("confidence", JNum(5))>>)),
   TkA(JObj(<<Field("dish_name", JStr(S_PadThai)), Field("confidence", JNum(-1))>>)),
   TkA(JObj(<<Field("portion", JStr(S_bowl)), Field("confidence", JStr(S_abc))>>))}

AnReplies(n) == {Raises} \cup {Says(t) : t \in TextsUpTo(AnTokens, n)}

InitAn ==
  /\ IdleWith(CHOOSE b \in Batches : TRUE, "POST", TRUE)
  /\ fin \in [fetchOk : BOOLEAN, reply : AnReplies(MaxTextLen)]
  /\ fout = NoOutput

CallAnalyze ==
  /\ ~fout.called
  /\ fout' = [called |-> TRUE, res |-> analyzeImage(fin.fetchOk, fin.reply)]
  /\ UNCHANGED <<hvars, dbvars, evvars, fin>>

NextAn == CallAnalyze

SpecAn == InitAn /\ [][NextAn]_vars

(***************************************************************************)
(* matchDish on its own: every table key in several spellings, and names   *)
(* of at most MaxWords words joined by the separators of the tokenizer     *)
(***************************************************************************)
MaxWords == 2

W_khao == <<"k","h","a","o">>
W_moo == <<"m","o","o">>
W_rice == <<"r","i","c","e">>
W_pad == <<"p","a","d">>
W_gai == <<"g","a","i">>
W_Dao == <<"D","a","o">>

Vocabulary == {W_khao, W_moo, W_rice, W_pad, W_gai, W_Dao, S_gibberish}
Separators == {" ", ",", "-"}

toUpperCase(s) ==
  [i \in 1..Len(s) |->
     IF \E u \in DOMAIN UpperToLower : UpperToLower[u] = s[i]
     THEN CHOOSE u \in DOMAIN UpperToLower : UpperToLower[u] = s[i]
     ELSE s[i]]

\* the spellings of a key: as it is, in capitals, padded with white space
Spellings(k) ==
  {k, toUpperCase(k), <<" ">> \o k \o <<" ">>, <<" ">> \o toUpperCase(k) \o <<" ">>,
   <<"\t">> \o k, k \o <<"\n">>}

\* ws[1] ss[1] ws[2] ss[2] ... ws[n]
RECURSIVE JoinWords(_, _)
JoinWords(ws, ss) ==
  IF Len(ws) = 1 THEN ws[1]
  ELSE JoinWords(SubSeq(ws, 1, Len(ws) - 1), SubSeq(ss, 1, Len(ss) - 1))
         \o <<ss[Len(ss)]>> \o ws[Len(ws)]

\* an input of the harness: the name, the index of the key it spells (0: none)
\* and the words it was joined from
MatchInput(name, key, words) == [name |-> name, key |-> key, words |-> words]

KeyInputs ==
  UNION {{MatchInput(n, i, <<>>) : n \in Spellings(MapKeys[i])} : i \in 1..Len(MapKeys)}

WordInputs(n) ==
  UNION {{MatchInput(JoinWords(ws, ss), 0, ws) :
            ws \in TextsOfLen(Vocabulary, k), ss \in TextsOfLen(Separators, k - 1)} :
         k \in 1..n}

InitMatch ==
  /\ IdleWith(CHOOSE b \in Batches : TRUE, "POST", TRUE)
  /\ fin \in KeyInputs \cup WordInputs(MaxWords)
  /\ fout = NoOutput

CallMatch ==
  /\ ~fout.called
  /\ fout' = [called |-> TRUE, res |-> matchDish(fin.name)]
  /\ UNCHANGED <<hvars, dbvars, evvars, fin>>

NextMatch == CallMatch

SpecMatch == InitMatch /\ [][NextMatch]_vars

(***************************************************************************)
(* summarize on its own: a users table with no, one or two rows for the    *)
(* external id, a meals table of at most MaxRows rows, each query          *)
(* succeeding or failing                                                   *)
(***************************************************************************)
MaxRows == 2

UserRow(i, ext) == [id |-> i, line_user_id |-> ext, display_name |-> DisplayName(ext)]

UsersTables ==
  {<<>>, <<UserRow(1, "U1")>>, <<UserRow(1, "U2")>>,
   <<UserRow(1, "U2"), UserRow(2, "U1")>>, <<UserRow(1, "U1"), UserRow(2, "U1")>>}

\* stored values: 0.5, 1.5, 2 and null
StoredValues == {Frac(1), Frac(3), Num(2), NaN}

\* a stored row, with the columns summarize selects
StoredRow(u, age, k) ==
  [ev |-> 0, user_id |-> u, taken_at |-> age, dish_name |-> S_tomyum,
   calories_kcal |-> k, protein_g |-> k, carbs_g |-> Num(0), fat_g |-> NaN]

StoredRows == {StoredRow(u, age, k) : u \in {1, 2}, age \in {0, 1}, k \in StoredValues}

\* the table holds its rows oldest first
OldestFirst(rows) == \A i \in 1..(Len(rows) - 1) : rows[i].taken_at >= rows[i + 1].taken_at

MealsTables(n) == {t \in TextsUpTo(StoredRows, n) : OldestFirst(t)}

InitSum ==
  /\ hpc = "verify" /\ method = "POST" /\ sigOk = TRUE /\ response = 0
  /\ events = (CHOOSE b \in Batches : TRUE)
  /\ users \in UsersTables
  /\ meals \in MealsTables(MaxRows)
  /\ pc = [e \in Events |-> "idle"]
  /\ uid = [e \in Events |-> 0]
  /\ su = [e \in Events |-> 0]
  /\ out = [e \in Events |-> MsgNoMealsYet]
  /\ cands = [e \in Events |-> <<>>]
  /\ est = [e \in Events |-> <<>>]
  /\ settled = [e \in Events |-> <<>>]
  /\ replies = [e \in Events |-> <<>>]
  /\ pushes = [e \in Events |-> <<>>]
  /\ fail = [e \in Events |-> ""]
  /\ fin \in [ext : {"U1"}, span : {"day", "week"}, selOk : BOOLEAN, qryOk : BOOLEAN]
  /\ fout = NoOutput

CallSummarize ==
  /\ ~fout.called
  /\ fout' = [called |-> TRUE,
              res |-> summarize(fin.ext, fin.span, fin.selOk, fin.qryOk)]
  /\ UNCHANGED <<hvars, dbvars, evvars, fin>>

NextSum == CallSummarize

SpecSum == InitSum /\ [][NextSum]_vars

(***************************************************************************)
(* Properties                                                              *)
(***************************************************************************)
IsImage(e) == events[e].type = "message" /\ events[e].mtype = "image"
IsText(e) == events[e].type = "message" /\ events[e].mtype = "text"

PipelinePcs ==
  {"fetch", "upload", "analyze_fetch", "analyze_model", "estimating", "persist",
   "push_result", "catch"}

PipelineSteps ==
  {"fetch", "upload", "analyze_fetch", "analyze_model", "analyze_parse", "estimate",
   "estimate_parse", "persist", "push_result", "catch_push"}

\* the stored records built for event e, in stored order
RecordsOf(e) == SelectSeq(meals, LAMBDA m : m.ev = e)

\* the messages pushed for event e that reached the user
Delivered(e) == SelectSeq(pushes[e], LAMBDA p : p.delivered)

OutcomeKinds == {"logged", "unidentified", "oops"}

\* what an event that returned has to show for itself, from its own steps alone
OutcomeComplete(e) ==
  IF IsImage(e)
  THEN /\ replies[e] = <<MsgAck>>
       /\ Len(Delivered(e)) = 1
       /\ Delivered(e)[1].msg.kind \in {"logged", "unidentified"}
            => /\ RecordsOf(e) = mealRows(e)
               /\ Delivered(e)[1].msg = resultMessage(mealRows(e))
       /\ fail[e] = "" => Delivered(e)[1].msg.kind \in {"logged", "unidentified"}
  ELSE IF IsText(e)
  THEN /\ Len(replies[e]) = 1
       /\ replies[e][1].kind \in
            (IF Route(e) = "reply_help" THEN {"help"}
             ELSE {"summary", "nomealsin", "nomealsyet"})
       /\ pushes[e] = <<>>
       /\ RecordsOf(e) = <<>>
  ELSE replies[e] = <<>> /\ pushes[e] = <<>> /\ RecordsOf(e) = <<>>

\* the callback of event e stands at an await whose answer resumes it
CanStep(e) ==
  /\ pc[e] \in {"upsert_select", "upsert_insert", "summ_user", "summ_query",
               "reply_summary", "reply_help", "ack"} \cup PipelinePcs
  /\ pc[e] = "estimating" => \E i \in 1..Len(est[e]) : est[e][i].st = "called"

\* C1: a failure raised while processing one event leaves every other event of
\* the batch alone: an event whose callback is still running when another has
\* thrown can take its next step, and an event that returned has the complete
\* outcome its own steps determine (its replies, its pushes, its records).
C1_OthersUnaffected ==
  \A e \in Events :
    (\E f \in Events \ {e} : pc[f] = "raised") =>
       /\ pc[e] \notin {"done", "raised"} => CanStep(e)
       /\ pc[e] = "done" => OutcomeComplete(e)

\* the step in which the callback of event f throws changes nothing of event e
C1_ThrowTouchesNoOther ==
  \A f \in Events :
    (pc[f] # "raised" /\ pc'[f] = "raised") =>
       \A e \in Events \ {f} :
         /\ pc'[e] = pc[e]
         /\ uid'[e] = uid[e]
         /\ cands'[e] = cands[e]
         /\ est'[e] = est[e]
         /\ replies'[e] = replies[e]
         /\ pushes'[e] = pushes[e]
         /\ RecordsOf(e)' = RecordsOf(e)

\* C1: both of the above, in every state and in every step
C1_FailureIsolation == []C1_OthersUnaffected /\ [][C1_ThrowTouchesNoOther]_vars

C1_Witness ==
  \E e \in Events : \E f \in Events \ {e} :
    /\ pc[f] = "raised"
    /\ response = 500
    /\ IsImage(e) /\ pc[e] = "done" /\ fail[e] = ""
    /\ Len(RecordsOf(e)) >= 2
    /\ Delivered(e)[1].msg.kind = "logged"

\* C2 (as claimed): however the upsertUser calls interleave, every external id
\* has at most one row, every call that returned has returned the id of the one
\* row of its external id, and no call is refused because the row exists.
C2_UpsertIdempotent ==
  /\ \A u \in ExternalIds : Cardinality(RowsOf(u)) <= 1
  /\ \A e \in Events : uid[e] # 0 => RowsOf(events[e].user) = {uid[e]}
  /\ \A e \in Events : fail[e] # "upsert_conflict"

\* C3: the records of one pipeline run are stored all or none.
C3_AtomicPersist ==
  \A e \in Events : RecordsOf(e) = <<>> \/ RecordsOf(e) = mealRows(e)

C3_Witness ==
  \E e \in Events : \E f \in Events \ {e} :
    /\ Len(RecordsOf(e)) >= 2
    /\ fail[f] = "persist" /\ Len(cands[f]) >= 2 /\ RecordsOf(f) = <<>>

\* C4: for an image event the acknowledgment has been delivered by the reply
\* token in every state in which a pipeline step has started, failed or left a
\* trace (candidates, records, a push); the reply token carries nothing else.
C4_AckFirst ==
  \A e \in Events :
    IsImage(e) =>
      /\ (\/ pc[e] \in PipelinePcs
          \/ fail[e] \in PipelineSteps
          \/ cands[e] # <<>>
          \/ RecordsOf(e) # <<>>
          \/ pushes[e] # <<>>) => replies[e] = <<MsgAck>>
      /\ \A i \in 1..Len(replies[e]) : replies[e][i] = MsgAck
      /\ \A i \in 1..Len(pushes[e]) : pushes[e][i].msg.kind \in OutcomeKinds

C4_Witness ==
  \E e \in Events :
    /\ IsImage(e) /\ pc[e] = "done"
    /\ replies[e] = <<MsgAck>>
    /\ Len(Delivered(e)) = 1 /\ Delivered(e)[1].msg.kind = "logged"

\* every event has returned or is an image event past its acknowledgment
AllAcknowledged ==
  /\ hpc = "dispatched"
  /\ method = "POST"
  /\ sigOk
  /\ \A e \in Events : pc[e] = "done" \/ (IsImage(e) /\ pc[e] \in PipelinePcs)

PipelineEnded(e) ==
  IsImage(e) /\ replies[e] = <<MsgAck>> /\ pc[e] \in {"done", "raised"}

\* C6 (as claimed): every pipeline that started and ended has delivered exactly
\* one outcome message.
C6_ExactlyOneOutcome ==
  \A e \in Events : PipelineEnded(e) => Len(Delivered(e)) = 1

\* C6 (amended): a pipeline never delivers two outcome messages; one that ended
\* has delivered exactly one unless the push of the apology itself failed, and
\* then none was delivered and the callback threw.
C6_OneOutcomeUnlessApologyFails ==
  \A e \in Events :
    /\ Len(Delivered(e)) <= 1
    /\ PipelineEnded(e) =>
         IF pushes[e][Len(pushes[e])].delivered
         THEN Len(Delivered(e)) = 1 /\ pc[e] = "done"
         ELSE /\ Delivered(e) = <<>>
              /\ pc[e] = "raised"
              /\ pushes[e][Len(pushes[e])].msg = MsgOops

\* the outcome push itself failed and the apology was delivered
C6_Witness ==
  \E e \in Events :
    /\ PipelineEnded(e)
    /\ Len(pushes[e]) = 2
    /\ pushes[e][1].msg.kind = "logged" /\ ~pushes[e][1].delivered
    /\ pushes[e][2].msg = MsgOops /\ pushes[e][2].delivered

AllUnknown(e) ==
  /\ cands[e] # <<>>
  /\ \A i \in 1..Len(cands[e]) :
       toLowerCase(NameOrUnknown(cands[e][i].dish_name)) = S_unknown

\* C7: no success message reports zero items; a run whose candidates are all
\* "unknown" never pushes a success message, and once its records are stored
\* the message it pushes is the couldn't-identify one.
C7_NoZeroItems ==
  \A e \in Events :
    /\ \A i \in 1..Len(pushes[e]) :
         pushes[e][i].msg.kind = "logged" => pushes[e][i].msg.n >= 1
    /\ AllUnknown(e) =>
         /\ \A i \in 1..Len(pushes[e]) : pushes[e][i].msg.kind # "logged"
         /\ (RecordsOf(e) # <<>> /\ pc[e] \notin {"push_result"})
              => pushes[e] # <<>> /\ pushes[e][1].msg = MsgUnidentified

C7_Witness ==
  \E e \in Events :
    /\ AllUnknown(e)
    /\ pc[e] = "done"
    /\ RecordsOf(e) # <<>>
    /\ pushes[e] = <<[msg |-> MsgUnidentified, delivered |-> TRUE]>>

\* the answer the estimateNutrition call of candidate i of event e received
ReplyOf(e, i) ==
  IF est[e][i].rid = 0 THEN Raises ELSE EstimatorReplies[est[e][i].rid]

\* the nutrition of candidate i, from its own name, portion and answer
OwnNutrition(e, i) ==
  estimateNutrition(cands[e][i].dish_name, cands[e][i].portion, ReplyOf(e, i)).val

\* C8: whatever the order in which the estimator calls complete, the i-th stored
\* record carries the i-th candidate's name and portion with the nutrition
\* estimated for that candidate, and the success message lists the records in
\* that order.
C8_OrderPreserved ==
  \A e \in Events :
    /\ Len(RecordsOf(e)) \in {0, Len(cands[e])}
    /\ \A i \in 1..Len(RecordsOf(e)) :
         LET r == RecordsOf(e)[i]
             n == OwnNutrition(e, i)
         IN  /\ r.dish_name = NameOrUnknown(cands[e][i].dish_name)
             /\ r.raw_ai.parsed = cands[e][i]
             /\ r.calories_kcal = n.kcal
             /\ r.protein_g = n.protein_g
             /\ r.carbs_g = n.carbs_g
             /\ r.fat_g = n.fat_g
             /\ r.raw_ai.nutrition = n
    /\ \A k \in 1..Len(pushes[e]) :
         pushes[e][k].msg.kind = "logged" =>
           LET shown == Listed(RecordsOf(e))
           IN  /\ pushes[e][k].msg.n = Len(shown)
               /\ \A i \in 1..Len(shown) :
                    /\ pushes[e][k].msg.items[i].name = shown[i].dish_name
                    /\ pushes[e][k].msg.items[i].kcal = MathRound(shown[i].calories_kcal)

\* the second candidate's call completed first, with a different answer
C8_Witness ==
  \E e \in Events :
    /\ settled[e] = <<2, 1>>
    /\ est[e][1].rid # est[e][2].rid
    /\ Len(RecordsOf(e)) = 2
    /\ Len(Delivered(e)) = 1 /\ Delivered(e)[1].msg.kind = "logged"

NonNegative(x) == ~x.nan /\ x.n >= 0

\* C9 (as claimed): whatever the dish name and the model's text, the four
\* fields of the result are numbers >= 0 and the source is map:<key>, the
\* model's tag or default.
C9_FactsWellFormed ==
  (fout.called /\ ~fout.res.raised) =>
     /\ NonNegative(fout.res.val.kcal)
     /\ NonNegative(fout.res.val.protein_g)
     /\ NonNegative(fout.res.val.carbs_g)
     /\ NonNegative(fout.res.val.fat_g)
     /\ \/ fout.res.val.source.tag = "map" /\ \E i \in 1..Len(MapKeys) :
                                                 fout.res.val.source.key = MapKeys[i]
        \/ fout.res.val.source = SrcGemini
        \/ fout.res.val.source = SrcDefault

\* C10 (as claimed): estimate returns a value and never raises, also when the
\* model call raises.
C10_NeverRaises == fout.called => ~fout.res.raised

\* the text holds an array the parser accepts
ArrayFound(reply) ==
  /\ ~reply.raises
  /\ RegexSpan(reply.text, "[", "]") # <<>>
  /\ JSONparse(RegexSpan(reply.text, "[", "]")).ok

\* C11: whenever analyzeImage returns, the sequence it returns has at least one
\* element, whatever text the model returned.
C11_NonEmpty ==
  (fout.called /\ ~fout.res.raised) => Len(fout.res.val) >= 1

\* the model's text holds an empty array
C11_Witness ==
  /\ fout.called /\ ~fout.res.raised
  /\ ArrayFound(fin.reply)
  /\ JSONparse(RegexSpan(fin.reply.text, "[", "]")).v = JArr(<<>>)
  /\ fout.res.val = <<UnknownCandidate>>

InUnitInterval(x) == ~x.nan /\ x.n >= 0 /\ x.n <= Num(1).n

\* C12 (as claimed): every candidate analyzeImage returns has a confidence in
\* [0,1], whatever confidence the model's JSON carries.
C12_ConfidenceInRange ==
  (fout.called /\ ~fout.res.raised) =>
     \A i \in 1..Len(fout.res.val) : InUnitInterval(fout.res.val[i].confidence)

\* C13 (as claimed): once the image has been fetched, analyzeImage returns a
\* candidate sequence whatever the later steps do; a text that does not parse
\* yields the single unknown candidate.
C13_OnlyFetchRaises ==
  (fout.called /\ fin.fetchOk) =>
     /\ ~fout.res.raised
     /\ ~ArrayFound(fin.reply) => fout.res.val = <<UnknownCandidate>>

\* C14: when the datastore rejects the insert of a run, none of the run's records
\* is stored, no success or couldn't-identify message is pushed for it, and the
\* one push made for it is the apology (it reaches the user when the channel
\* accepts it; the callback throws when it does not).
C14_PersistFailureFatal ==
  \A e \in Events :
    fail[e] = "persist" =>
      /\ RecordsOf(e) = <<>>
      /\ \A i \in 1..Len(pushes[e]) : pushes[e][i].msg = MsgOops
      /\ pc[e] \in {"catch", "done", "raised"}
      /\ pc[e] = "catch" => pushes[e] = <<>>
      /\ pc[e] = "done" => pushes[e] = <<[msg |-> MsgOops, delivered |-> TRUE]>>
      /\ pc[e] = "raised" => pushes[e] = <<[msg |-> MsgOops, delivered |-> FALSE]>>

C14_Witness ==
  \E e \in Events :
    /\ fail[e] = "persist" /\ pc[e] = "done"
    /\ Len(cands[e]) >= 2
    /\ pushes[e] = <<[msg |-> MsgOops, delivered |-> TRUE]>>

\* the steps that fail because a call to a service fails
IOSteps ==
  {"upsert_insert", "upsert_conflict", "ack", "fetch", "upload", "analyze_fetch",
   "analyze_model", "estimate", "persist", "push_result", "catch_push"}

\* C15: in a pipeline run in which no call to a service failed, whatever texts
\* the model returned to the analyzer and to each estimator call, the run ends
\* with its records stored and no apology pushed: a text that does not parse
\* never makes a step fail.
C15_ParseFailureRecovered ==
  \A e \in Events :
    /\ fail[e] \notin {"analyze_parse", "estimate_parse"}
    /\ (IsImage(e) /\ pc[e] = "done" /\ fail[e] \notin IOSteps) =>
         /\ Len(RecordsOf(e)) >= 1
         /\ RecordsOf(e) = mealRows(e)
         /\ \A i \in 1..Len(pushes[e]) : pushes[e][i].msg # MsgOops

\* neither the analyzer's text nor the estimator's text parsed
C15_Witness ==
  \E e \in Events :
    /\ IsImage(e) /\ pc[e] = "done" /\ fail[e] = ""
    /\ cands[e] = <<UnknownCandidate>>
    /\ est[e][1].rid = 3 /\ est[e][1].val = DefaultFacts
    /\ Len(RecordsOf(e)) = 1
    /\ pushes[e] = <<[msg |-> MsgUnidentified, delivered |-> TRUE]>>


\* C16: for every key k of the table, matchDish(k) is k, also when k is written
\* in capitals or with white space around it.
C16_MatchKey ==
  (fout.called /\ fin.key # 0) => fout.res = MapKeys[fin.key]

\* " PAD THAI " is matched to "pad thai"
C16_Witness ==
  /\ fout.called
  /\ fin.name = S_PADTHAI
  /\ fin.key # 0 /\ fout.res = MapKeys[fin.key]

\* the number of tokens key i shares with the words of the input
Overlap(i) == Cardinality(MapKeyTokens[i] \cap {toLowerCase(fin.words[w]) : w \in 1..Len(fin.words)})

NoKeyContained ==
  \A i \in 1..Len(MapKeys) : ~includes(trim(toLowerCase(fin.name)), MapKeys[i])

\* C17: when no key equals or is contained in the input, matchDish returns the
\* key that shares the most tokens with it, the first such key in table order
\* on a tie, and none when no key shares a token.
C17_TokenScoring ==
  (fout.called /\ fin.key = 0 /\ NoKeyContained) =>
     IF \A i \in 1..Len(MapKeys) : Overlap(i) = 0
     THEN fout.res = NoKey
     ELSE \E i \in 1..Len(MapKeys) :
            /\ fout.res = MapKeys[i]
            /\ Overlap(i) >= 1
            /\ \A j \in 1..Len(MapKeys) : Overlap(j) <= Overlap(i)
            /\ \A j \in 1..(i - 1) : Overlap(j) < Overlap(i)

\* "rice" alone: "omelet rice" and "fried rice" tie, the first is returned
C17_Witness ==
  /\ fout.called
  /\ fin.key = 0 /\ fin.words = <<W_rice>>
  /\ Overlap(7) = 1 /\ Overlap(9) = 1
  /\ fout.res = MapKeys[7]


\* the stored records of the users registered under the external id that lie
\* in the window
RecordsInWindow(ext, span) ==
  SelectSeq(meals, LAMBDA m : m.user_id \in RowsOf(ext) /\ InWindow(m, span))

\* the sum of the kcal values of the records, in halves; a null is no value
RECURSIVE ExactKcal(_)
ExactKcal(rows) ==
  IF rows = <<>> THEN 0
  ELSE (IF Head(rows).calories_kcal.nan THEN 0 ELSE Head(rows).calories_kcal.n)
       + ExactKcal(Tail(rows))

\* C18: the total kcal of a summary is the exact sum of its records' kcal
\* values, rounded once, for display.
C18_ExactTotal ==
  (fout.called /\ ~fout.res.raised /\ fout.res.val.kind = "summary") =>
     fout.res.val.total[1] = MathRound(Frac(ExactKcal(RecordsInWindow(fin.ext, fin.span))))

\* two records of 0.5 kcal: the total shown is 1
C18_Witness ==
  /\ fout.called /\ ~fout.res.raised /\ fout.res.val.kind = "summary"
  /\ Len(RecordsInWindow(fin.ext, fin.span)) = 2
  /\ \A i \in 1..2 : RecordsInWindow(fin.ext, fin.span)[i].calories_kcal = Frac(1)
  /\ fout.res.val.total[1] = Num(1)

\* C19 (as claimed): summarize returns the "no meals yet" text exactly when the
\* external id has no user row, and the "no meals in this <span>" text exactly
\* when it has one and no record of it lies in the window; the two texts differ
\* from each other and from a summary.
C19_Sentinels ==
  (fout.called /\ ~fout.res.raised) =>
     /\ fout.res.val = MsgNoMealsYet <=> RowsOf(fin.ext) = {}
     /\ fout.res.val = MsgNoMealsIn(fin.span)
          <=> (RowsOf(fin.ext) # {} /\ RecordsInWindow(fin.ext, fin.span) = <<>>)
     /\ MsgNoMealsYet # MsgNoMealsIn(fin.span)
     /\ fout.res.val.kind = "summary" => fout.res.val \notin {MsgNoMealsYet, MsgNoMealsIn(fin.span)}


\* the step of a pipeline run that stores its records
StoresRun(e) ==
  /\ IsImage(e)
  /\ pc[e] = "persist" /\ pc'[e] = "push_result"
  /\ cands[e] # <<>>
  /\ Len(est[e]) = Len(cands[e]) /\ AllDone(est[e])
  /\ meals' = meals \o mealRows(e)

\* C20: the meal log only grows at its end: no step changes or removes a stored
\* record, and the only step that adds records is the insert of a pipeline run
\* whose analyze step and estimate calls have all returned.
C20_AppendOnly ==
  [][/\ Len(meals') >= Len(meals)
     /\ SubSeq(meals', 1, Len(meals)) = meals
     /\ meals' # meals => \E e \in Events : StoresRun(e)]_vars

\* a summary was replied while the records of an image event were stored
C20_Witness ==
  \E e \in Events : \E f \in Events \ {e} :
    /\ Len(RecordsOf(e)) >= 2
    /\ IsText(f) /\ pc[f] = "done"
    /\ replies[f] # <<>> /\ replies[f][1].kind = "summary"
    /\ meals = RecordsOf(e)


\* the run of image event e went through every step without a failure
RunSucceeded(e) == IsImage(e) /\ pc[e] = "done" /\ fail[e] = ""

\* C21: there is no deduplication: when the same image event is processed twice
\* for one user with the same analysis and both runs succeed, each run has
\* stored its own full set of records, so the log holds both sets.
C21_NoDeduplication ==
  \A e \in Events : \A f \in Events \ {e} :
    (/\ events[e] = events[f]
     /\ RunSucceeded(e) /\ RunSucceeded(f)
     /\ uid[e] = uid[f]
     /\ cands[e] = cands[f])
    => /\ RecordsOf(e) = mealRows(e)
       /\ RecordsOf(f) = mealRows(f)
       /\ Len(RecordsOf(e)) = Len(cands[e])
       /\ Len(RecordsOf(f)) = Len(cands[f])
       /\ Len(meals) = 2 * Len(cands[e])

\* the same image event was processed twice with the same two candidates and
\* the same nutrition, and four records are stored
C21_Witness ==
  \E e \in Events : \E f \in Events \ {e} :
    /\ events[e] = events[f]
    /\ RunSucceeded(e) /\ RunSucceeded(f)
    /\ uid[e] = uid[f]
    /\ cands[e] = cands[f] /\ Len(cands[e]) = 2
    /\ nutritionResults(e) = nutritionResults(f)
    /\ Len(meals) = 4

\* the estimateNutrition calls of run e that called the model: the answer is
\* awaited, or one answer was read
ModelCalls(e) == {i \in 1..Len(est[e]) : est[e][i].st = "called" \/ est[e][i].rid # 0}

\* the candidates of run e whose name matches the table
Matched(e) == {i \in 1..Len(cands[e]) : matchDish(cands[e][i].dish_name) # NoKey}

\* the model calls of run e are those of its unmatched candidates, one each
CallsAsClaimed(e) ==
  LET m == Matched(e)
      c == ModelCalls(e)
  IN  /\ Len(est[e]) = Len(cands[e])
      /\ c = (1..Len(cands[e])) \ m
      /\ Cardinality(c) = Len(cands[e]) - Cardinality(m)
      /\ \A i \in m : est[e][i].st = "done" /\ est[e][i].rid = 0

\* the positions a run is left in by the steps that write est[e]: the fan-out
\* (to estimating, or to persist when every name matched) and the reading of a
\* model answer (to estimating, persist or catch)
FanOutPcs == {"estimating", "persist", "catch"}

\* C22: during and right after the fan-out of a run, a candidate whose name
\* matches the table made no model call and every other candidate made exactly
\* one, so a run over n candidates of which m match makes n - m model calls,
\* also when unmatched candidates carry the same name.
C22_ModelCalls ==
  \A e \in Events :
    (est[e] # <<>> /\ pc[e] \in FanOutPcs) => CallsAsClaimed(e)

\* two unmatched candidates of one run carry the same name and each got its own
\* answer from the model
C22_Witness ==
  \E e \in Events :
    /\ pc[e] = "persist"
    /\ Len(cands[e]) = 2
    /\ cands[e][1].dish_name = cands[e][2].dish_name
    /\ Matched(e) = {}
    /\ est[e][1].rid # 0 /\ est[e][2].rid # 0
    /\ est[e][1].rid # est[e][2].rid


\* the value the claim gives a field of the parsed object j: the object's value
\* when it is a number, the field's default otherwise
NumericOrDefault(j, field, default) ==
  IF GetProp(j, field).t = "num" THEN Num(GetProp(j, field).n) ELSE Num(default)

\* C23 (as claimed): when no table key matches and the model's text holds a
\* parseable JSON object, each of the four fields of the result is the object's
\* value when that is present and numeric and the field's default (500, 20, 60,
\* 18) when it is missing or not a number, and the result carries the model's
\* tag.
C23_FieldDefaults ==
  (/\ fout.called
   /\ matchDish(fin.dish) = NoKey
   /\ ~fin.reply.raises
   /\ JSONparse(RegexSpan(fin.reply.text, "{", "}")).ok)
  => LET j == JSONparse(RegexSpan(fin.reply.text, "{", "}")).v
     IN  /\ ~fout.res.raised
         /\ fout.res.val.kcal = NumericOrDefault(j, "kcal", 500)
         /\ fout.res.val.protein_g = NumericOrDefault(j, "protein_g", 20)
         /\ fout.res.val.carbs_g = NumericOrDefault(j, "carbs_g", 60)
         /\ fout.res.val.fat_g = NumericOrDefault(j, "fat_g", 18)
         /\ fout.res.val.source = SrcGemini


\* a record left out of the reply: one named "unknown", in any letter case
\* (anyCase) or in exactly that spelling
NamedUnknown(r, anyCase) ==
  IF anyCase THEN toLowerCase(r.dish_name) = S_unknown ELSE r.dish_name = S_unknown

\* the positions of the records of run e that are not left out
ShownAt(e, anyCase) ==
  {i \in 1..Len(RecordsOf(e)) : ~NamedUnknown(RecordsOf(e)[i], anyCase)}

\* the k-th smallest element of a set of positions
NthOf(S, k) == CHOOSE i \in S : Cardinality({j \in S : j < i}) = k - 1

\* the sum, in halves, of the kcal of the records of run e at the positions S
RECURSIVE KcalHalves(_, _)
KcalHalves(e, S) ==
  IF S = {} THEN 0
  ELSE LET i == CHOOSE x \in S : TRUE
       IN  RecordsOf(e)[i].calories_kcal.n + KcalHalves(e, S \ {i})

\* every success message pushed for run e lists the records that are not left
\* out, in the records' order, counts them and totals their kcal
ReplyListsAllBut(e, anyCase) ==
  \A k \in 1..Len(pushes[e]) :
    pushes[e][k].msg.kind = "logged" =>
      LET S == ShownAt(e, anyCase)
          m == pushes[e][k].msg
      IN  /\ RecordsOf(e) = mealRows(e)
          /\ m.n = Cardinality(S)
          /\ Len(m.items) = Cardinality(S)
          /\ \A j \in 1..Cardinality(S) :
               LET r == RecordsOf(e)[NthOf(S, j)]
               IN  m.items[j] = fmtMealLine(r.dish_name, r.calories_kcal,
                                            r.protein_g, r.carbs_g, r.fat_g)
          /\ m.total = <<IF \E i \in S : RecordsOf(e)[i].calories_kcal.nan
                         THEN NaN ELSE MathRound(Frac(KcalHalves(e, S)))>>

\* C24 (as claimed): the success reply of a run lists exactly the run's records
\* whose dish_name is not "unknown", in candidate order; its item count is the
\* number of listed items and its total the sum of their kcal only.
C24_ReplyListsNotUnknown ==
  \A e \in Events : ReplyListsAllBut(e, FALSE)

\* C24 (amended): the success reply of a run lists exactly the run's records
\* whose dish_name, lowercased, is not "unknown", in candidate order; its item
\* count is the number of listed items and its total the sum of their kcal only.
C24_ReplyListsNotUnknownAnyCase ==
  \A e \in Events : ReplyListsAllBut(e, TRUE)

\* a run stored a listed record and one named "Unknown", and its success reply
\* with one item was delivered
C24_Witness ==
  \E e \in Events :
    /\ Len(RecordsOf(e)) = 2
    /\ ShownAt(e, TRUE) = {1}
    /\ RecordsOf(e)[2].dish_name # S_unknown
    /\ ~RecordsOf(e)[2].calories_kcal.nan /\ RecordsOf(e)[2].calories_kcal.n > 0
    /\ Len(Delivered(e)) = 1
    /\ Delivered(e)[1].msg.kind = "logged" /\ Delivered(e)[1].msg.n = 1


\* the failure apology reached the user of event e
ApologyDelivered(e) ==
  \E k \in 1..Len(pushes[e]) : pushes[e][k].msg = MsgOops /\ pushes[e][k].delivered

\* C25 (as claimed): when the failure apology was delivered for an image event,
\* no record of that event's run is stored: stored records and a failure
\* apology never both exist for one image event.
C25_ApologyMeansNothingStored ==
  \A e \in Events : ApologyDelivered(e) => RecordsOf(e) = <<>>


\* an estimator call of run e raised
SomeCallRaised(e) == \E i \in 1..Len(est[e]) : est[e][i].st = "failed"

\* C26: persistence waits for the whole fan-out: records of a run are stored
\* only when every estimator call of the run has returned, and when any call
\* raised none of the run's records is stored, the run is in its catch block or
\* past it, and the one message pushed by the time it is past it is the failure
\* apology.
C26_PersistAfterFanOut ==
  \A e \in Events :
    /\ RecordsOf(e) # <<>> =>
         /\ Len(est[e]) = Len(cands[e])
         /\ \A i \in 1..Len(est[e]) : est[e][i].st = "done"
    /\ SomeCallRaised(e) =>
         /\ RecordsOf(e) = <<>>
         /\ fail[e] = "estimate"
         /\ pc[e] \in {"catch", "done", "raised"}
         /\ pc[e] # "catch" => /\ Len(pushes[e]) = 1
                               /\ pushes[e][1].msg = MsgOops

\* the first candidate's estimate came back from the model, the second call
\* raised, nothing was stored and the apology was delivered
C26_Witness ==
  \E e \in Events :
    /\ Len(est[e]) = 2
    /\ est[e][1].st = "done" /\ est[e][1].rid # 0
    /\ est[e][2].st = "failed"
    /\ pc[e] = "done"
    /\ RecordsOf(e) = <<>>
    /\ pushes[e] = <<[msg |-> MsgOops, delivered |-> TRUE]>>

=============================================================================
